---------------------------- MODULE Spec2Model ----------------------------
(***************************************************************************)
(* A model of Updater.py: the version codec, the update-chain resolver,    *)
(* the package fetcher, the patch applier and the orchestrating main loop. *)
(*                                                                         *)
(* Strings are sequences of one-character strings, so that parse_version   *)
(* really splits and converts.  The install root holds one directory,      *)
(* OldAssets, with two files, and the version marker SCRIPTS/LOC_VER.txt.  *)
(***************************************************************************)
EXTENDS Integers, Sequences, FiniteSets, TLC

(***************************************************************************)
(* Bounds of the model.                                                    *)
(***************************************************************************)
\* the longest version list the server answers with (before filtering)
MaxListLen == 3
\* how many operations of the environment (file operations, requests) fail
\* in one run of the program
MaxFaults == 2
\* the longest published list handed to get_update_chain in SpecChain
MaxPublished == 4
\* the most segments of a version handed to the codec in SpecCodec
MaxSegments == 2

\* Python's None, a value no version text equals (texts are sequences of
\* single characters)
None == <<"None">>

(***************************************************************************)
(* VersionCodec: parse_version, format_version, Python's list comparison.  *)
(***************************************************************************)
Digits == {"0", "1", "2", "3", "4", "5", "6", "7", "8", "9"}

DigitValue(c) ==
    CASE c = "0" -> 0 [] c = "1" -> 1 [] c = "2" -> 2 [] c = "3" -> 3
      [] c = "4" -> 4 [] c = "5" -> 5 [] c = "6" -> 6 [] c = "7" -> 7
      [] c = "8" -> 8 [] c = "9" -> 9

DigitChar(d) ==
    CASE d = 0 -> "0" [] d = 1 -> "1" [] d = 2 -> "2" [] d = 3 -> "3"
      [] d = 4 -> "4" [] d = 5 -> "5" [] d = 6 -> "6" [] d = 7 -> "7"
      [] d = 8 -> "8" [] d = 9 -> "9"

\* str.split('.'): the parts between the dots; "" splits into one empty part
RECURSIVE SplitDots(_)
SplitDots(s) ==
    IF \A i \in 1..Len(s) : s[i] # "."
    THEN <<s>>
    ELSE LET k == CHOOSE i \in 1..Len(s) :
                      s[i] = "." /\ \A j \in 1..(i - 1) : s[j] # "."
         IN  <<SubSeq(s, 1, k - 1)>> \o SplitDots(SubSeq(s, k + 1, Len(s)))

\* the decimal value of a non-empty run of digits
RECURSIVE DecimalValue(_)
DecimalValue(ds) ==
    IF ds = <<>> THEN 0
    ELSE 10 * DecimalValue(SubSeq(ds, 1, Len(ds) - 1)) + DigitValue(ds[Len(ds)])

\* str.strip(): the text without its leading and trailing blanks
Blanks == {" ", "\n"}

RECURSIVE StripLeft(_)
StripLeft(s) == IF s # <<>> /\ s[1] \in Blanks THEN StripLeft(Tail(s)) ELSE s

RECURSIVE StripRight(_)
StripRight(s) ==
    IF s # <<>> /\ s[Len(s)] \in Blanks
    THEN StripRight(SubSeq(s, 1, Len(s) - 1)) ELSE s

Strip(s) == StripRight(StripLeft(s))

\* whether int(part) succeeds: blanks around it are ignored, then an
\* optional sign, then one or more digits (the alphabet of the model has no
\* underscores)
IsIntLiteral(part) ==
    LET text == Strip(part)
        body == IF text # <<>> /\ text[1] \in {"+", "-"}
                THEN SubSeq(text, 2, Len(text)) ELSE text
    IN  body # <<>> /\ \A i \in 1..Len(body) : body[i] \in Digits

IntValue(part) ==
    LET text == Strip(part)
    IN  IF text[1] = "-" THEN 0 - DecimalValue(SubSeq(text, 2, Len(text)))
        ELSE IF text[1] = "+" THEN DecimalValue(SubSeq(text, 2, Len(text)))
        ELSE DecimalValue(text)

\* parse_version: the list of the parts' integers, [] when int() raises
\* ValueError on a part or split raises AttributeError on None
parse_version(version_str) ==
    IF version_str = None THEN <<>>
    ELSE LET parts == SplitDots(version_str)
         IN  IF \A i \in 1..Len(parts) : IsIntLiteral(parts[i])
             THEN [i \in 1..Len(parts) |-> IntValue(parts[i])]
             ELSE <<>>

\* str(n) for an integer
RECURSIVE NatStr(_)
NatStr(n) == IF n < 10 THEN <<DigitChar(n)>>
             ELSE NatStr(n \div 10) \o <<DigitChar(n % 10)>>

\* a variant that writes the last digit only
LastDigit(n) == <<DigitChar(n % 10)>>

IntStr(n) == IF n < 0 THEN <<"-">> \o NatStr(0 - n) ELSE NatStr(n)

\* format_version: '.'.join(str(part) for part in version_list)
RECURSIVE format_version(_)
format_version(version_list) ==
    IF version_list = <<>> THEN <<>>
    ELSE IF Len(version_list) = 1 THEN IntStr(version_list[1])
    ELSE IntStr(version_list[1]) \o <<".">> \o format_version(Tail(version_list))

\* a variant under which no list is smaller than another
NeverLess(a, b) == FALSE

\* Python's a < b on lists of integers: the first differing element decides,
\* and a proper prefix is the smaller
RECURSIVE ListLess(_, _)
ListLess(a, b) ==
    IF b = <<>> THEN FALSE
    ELSE IF a = <<>> THEN TRUE
    ELSE IF a[1] # b[1] THEN a[1] < b[1]
    ELSE ListLess(Tail(a), Tail(b))

ListLessEq(a, b) == a = b \/ ListLess(a, b)

\* a variant that takes every value for false
NeverTruthy(x) == FALSE

\* Python's truth value of a string, a list or None
Truthy(x) == x # None /\ x # <<>>

(***************************************************************************)
(* ChainResolver: get_update_chain.                                        *)
(***************************************************************************)
\* a variant that leaves the target version out
InOpenRange(current_parsed, version_parsed, target_parsed) ==
    /\ ListLess(current_parsed, version_parsed)
    /\ ListLess(version_parsed, target_parsed)

\* the test an element of all_versions passes to join the chain (line 195)
InChainRange(current_parsed, version_parsed, target_parsed) ==
    /\ ListLess(current_parsed, version_parsed)
    /\ ListLessEq(version_parsed, target_parsed)

\* the loop of lines 189-196 over all_versions[i..]
RECURSIVE ChainLoop(_, _, _, _)
ChainLoop(current_parsed, target_parsed, all_versions, i) ==
    IF i > Len(all_versions) THEN <<>>
    ELSE LET version_parsed == parse_version(all_versions[i])
             rest == ChainLoop(current_parsed, target_parsed, all_versions, i + 1)
         IN  IF version_parsed = <<>> THEN rest
             ELSE IF InChainRange(current_parsed, version_parsed, target_parsed)
                  THEN <<all_versions[i]>> \o rest
                  ELSE rest

get_update_chain(current_version, target_version, all_versions) ==
    LET current_parsed == parse_version(current_version)
        target_parsed == parse_version(target_version)
    IN  IF current_parsed = <<>> \/ target_parsed = <<>> THEN <<>>
        ELSE ChainLoop(current_parsed, target_parsed, all_versions, 1)

(***************************************************************************)
(* get_version_list: drop what does not parse, sort by parsed version.     *)
(***************************************************************************)
\* lines 156-159: keep the versions parse_version gives a non-empty list for
RECURSIVE ValidVersions(_)
ValidVersions(versions) ==
    IF versions = <<>> THEN <<>>
    ELSE IF parse_version(versions[1]) # <<>>
         THEN <<versions[1]>> \o ValidVersions(Tail(versions))
         ELSE ValidVersions(Tail(versions))

\* v put into the sorted list after every element not greater than it
RECURSIVE InsertSorted(_, _)
InsertSorted(sorted, v) ==
    IF sorted = <<>> THEN <<v>>
    ELSE IF ListLess(parse_version(v), parse_version(sorted[1]))
         THEN <<v>> \o sorted
         ELSE <<sorted[1]>> \o InsertSorted(Tail(sorted), v)

\* list.sort(key=parse_version): a stable ascending sort
RECURSIVE SortByVersion(_)
SortByVersion(versions) ==
    IF versions = <<>> THEN <<>>
    ELSE InsertSorted(SortByVersion(SubSeq(versions, 1, Len(versions) - 1)),
                      versions[Len(versions)])

\* the list get_version_list returns for the lines the server answered
get_version_list(lines) == SortByVersion(ValidVersions(lines))

(***************************************************************************)
(* The install root, the packages and the environment's answers.           *)
(***************************************************************************)
FOld == "OldAssets/old.dat"
FNew == "OldAssets/new.dat"
Files == {FOld, FNew}
DirPath == "OldAssets/"
MarkerPath == "SCRIPTS/LOC_VER.txt"
\* the paths a delete-list names
DelPaths == {DirPath, FNew, MarkerPath}

\* the content of a file: none, the one it had at the start, or the version
\* of the package that wrote it
Absent == <<"absent">>
Orig == <<"orig">>

V100 == <<"1", ".", "0", ".", "0">>
V110 == <<"1", ".", "1", ".", "0">>
V115 == <<"1", ".", "1", ".", "5">>
V120 == <<"1", ".", "2", ".", "0">>
V10 == <<"1", ".", "0">>
\* "1.0" as an editor saves it, with the newline that ends the line
V10nl == <<"1", ".", "0", "\n">>
V11 == <<"1", ".", "1">>
V12 == <<"1", ".", "2">>
V13 == <<"1", ".", "3">>
Vbad == <<"1", ".", "x">>
Vempty == <<>>

\* the version texts get_update_chain is tried on in SpecChain
ChainPool == {V100, V110, V115, V120, Vbad}
\* what LOC_VER.txt holds when the program starts (None: no such file)
LocalMarkers == {None, Vempty, Vbad, V10nl}
\* the lines of the version list the server may publish
ListedVersions == {V11, V12, V13, Vbad}
\* the latest version the server may announce (None: the request failed)
ServerVersions == {None, Vbad, V10, V12, V13}
\* the minimum supported version the server may announce
MinVersions == {None, Vempty, V10, V11}

RECURSIVE SeqsUpTo(_, _)
SeqsUpTo(S, n) ==
    IF n = 0 THEN {<<>>}
    ELSE LET shorter == SeqsUpTo(S, n - 1)
         IN  shorter \cup {Append(q, x) : q \in {r \in shorter : Len(r) = n - 1}, x \in S}

InitTrees ==
    {t \in [dir : BOOLEAN, files : [Files -> {Absent, Orig}]] :
        ~t.dir => \A f \in Files : t.files[f] = Absent}

\* a package: the files it ships into OldAssets, whether the archive holds
\* the directory, whether it has a delete-list and the paths that names
Packages ==
    {p \in [files : SUBSET Files, dir : BOOLEAN,
            hasDel : BOOLEAN, del : SUBSET DelPaths] :
        /\ p.files # {} => p.dir
        /\ ~p.hasDel => p.del = {}}

NoPkg == [files |-> {}, dir |-> FALSE, hasDel |-> FALSE, del |-> {}]

\* the install roots Spec starts from: OldAssets with both files, or without
\* the directory
MainTrees == {t \in InitTrees : t.dir => \A f \in Files : t.files[f] = Orig}

\* the package the server of Spec serves for every version: it retires
\* OldAssets and ships new.dat into it
ServedPackages ==
    {[files |-> {FNew}, dir |-> TRUE, hasDel |-> TRUE, del |-> {DirPath}]}

\* TEMP_UPDATE: whether it exists, whose package was extracted into it and
\* what of that package it holds
NoTemp == [exists |-> FALSE, ver |-> None, files |-> {}, dir |-> FALSE,
           hasDel |-> FALSE, del |-> {}]

\* content-length values the server reports (0: none reported), free space
Sizes == {0, 1}
FreeSpace == {1, 2, 3}

\* check_disk_space: free > 2 * required; True when disk_usage raises
check_disk_space(required_size, free_space, usage_ok) ==
    IF usage_ok THEN free_space > required_size * 2 ELSE TRUE

\* a variant that takes no snapshot
NoSnapshot(m) == None

\* get_local_version: None without the file, else its stripped text
get_local_version(m) == IF m = None THEN None ELSE Strip(m)

\* what a failed open(LOCAL_VERSION_FILE, "w") / write leaves: the file as it
\* was (open raised) or truncated to nothing (write raised)
FailedWrite(m) == {m, Vempty}

\* the version-list request: whether it succeeded and the lines it returned
ListAnswers ==
    {[ok |-> FALSE, lines |-> <<>>]}
        \cup {[ok |-> TRUE, lines |-> l] : l \in SeqsUpTo(ListedVersions, MaxListLen)}

(***************************************************************************)
(* The state.                                                              *)
(***************************************************************************)
VARIABLES
    pc,                  \* where the program is
    marker,              \* the text of LOC_VER.txt, None without the file
    tree,                \* OldAssets under the install root
    temp,                \* TEMP_UPDATE
    zips,                \* the versions whose Update_<version>.zip exists
    pkg,                 \* what the zip of the element being installed holds
    local_version_str, server_version_str, update_chain,
    published,           \* the list get_update_chain is given in SpecChain
    codec,               \* the versions and results of the codec in SpecCodec
    idx,                 \* the position in update_chain (enumerate's index)
    faults,              \* how many operations have failed so far
    report,              \* what the program told the user last
    UPDATE_WARNINGS,
    target_version, backup_version, result,
    delTodo,             \* delete-list lines not yet read
    walkTodo,            \* files of the walked directory not yet copied
    fetch,               \* history: the last download_update call
    h,                   \* history: the apply_update call in progress
    walked,              \* history: versions whose overlay walk completed
    events,              \* history: the fetches and applies of this attempt
    twice                \* the second application of one package (SpecTwice)

fsVars == <<marker, tree, temp, zips>>
chainVars == <<local_version_str, server_version_str, update_chain, published,
              codec>>
loopVars == <<idx, faults>>
applyLocals == <<target_version, backup_version, result, delTodo, walkTodo>>
vars == <<pc, marker, tree, temp, zips, pkg, local_version_str,
          server_version_str, update_chain, published, codec, idx, faults, report,
          UPDATE_WARNINGS, target_version, backup_version, result, delTodo,
          walkTodo, fetch, h, walked, events, twice>>

\* the codec's inputs and results outside SpecCodec
NoCodec == [a |-> <<>>, b |-> <<>>, c |-> <<>>, text |-> <<>>, back |-> <<>>,
            less |-> {}]

NoFetch == [ret |-> "none", why |-> "", size |-> 0, free |-> 0, usage |-> TRUE,
            wrote |-> FALSE]

\* the history of one apply_update call, as it starts
FreshApply(m, t) ==
    [before |-> m,          \* the marker as the call found it
     hard |-> "none",       \* the step that raised into the outer except
     restore |-> "none",    \* the restore step: skipped, ok or failed
     cleanup |-> "none",    \* the finally step: absent, removed or failed
     soft |-> {},           \* the kinds of failure the call absorbed
     walkDone |-> FALSE,    \* whether the overlay walk ran to its end
     removed |-> {},        \* the paths the delete-list has removed
     copied |-> {},         \* the files the walk has copied
     lateDelete |-> FALSE,  \* whether a delete-list removal followed a copy
     overlaid |-> t]        \* the tree as the walk left it

NotTwice == [n |-> 0, tree |-> [dir |-> FALSE, files |-> [f \in Files |-> Absent]],
             marker |-> None, clean |-> FALSE]

Init ==
    /\ pc = "check"
    /\ marker \in LocalMarkers
    /\ tree \in MainTrees
    /\ temp = NoTemp
    /\ zips = {}
    /\ pkg = NoPkg
    /\ local_version_str = None
    /\ server_version_str = None
    /\ update_chain = <<>>
    /\ published = <<>>
    /\ codec = NoCodec
    /\ idx = 0
    /\ faults = 0
    /\ report = "none"
    /\ UPDATE_WARNINGS = <<>>
    /\ target_version = None
    /\ backup_version = None
    /\ result = FALSE
    /\ delTodo = {}
    /\ walkTodo = {}
    /\ fetch = NoFetch
    /\ h = FreshApply(None, NotTwice.tree)
    /\ walked = {}
    /\ events = <<>>
    /\ twice = NotTwice

(***************************************************************************)
(* main, lines 394-476: one pass of the update check.                      *)
(***************************************************************************)
\* a variant that looks at the list only
ListMissing(local_version, server_version, all_versions) ==
    all_versions = <<>>

\* line 459: a version that did not parse, or no published version
InfoMissing(local_version, server_version, all_versions) ==
    local_version = <<>> \/ server_version = <<>> \/ all_versions = <<>>

\* what one pass of the check loop decides, from the marker and the
\* server's three answers (cont: the user's answer to "continue without a
\* minimum version?")
CheckOutcome(local, srv, lst, minv, cont) ==
    LET all_versions == get_version_list(lst.lines)
        local_version == parse_version(local)
        server_version == parse_version(srv)
        min_version_parsed == parse_version(minv)
    IN  IF local = None THEN "error_local"
        ELSE IF srv = None THEN "error_server"
        ELSE IF ~lst.ok THEN "error_list"
        ELSE IF /\ Truthy(minv)
                /\ local_version # <<>>
                /\ min_version_parsed # <<>>
                /\ ListLess(local_version, min_version_parsed) THEN "too_low"
        ELSE IF minv = None /\ ~cont THEN "declined"
        ELSE IF InfoMissing(local_version, server_version, all_versions)
             THEN "error_info"
        ELSE IF ListLess(local_version, server_version)
             THEN IF get_update_chain(local, srv, all_versions) = <<>>
                  THEN "error_chain" ELSE "update"
        ELSE "uptodate"

CheckForUpdates ==
    /\ pc = "check"
    /\ \E srv \in ServerVersions, lst \in ListAnswers, minv \in MinVersions,
          cont \in BOOLEAN :
        LET local == get_local_version(marker)
            outcome == CheckOutcome(local, srv, lst, minv, cont)
        IN  /\ report' = outcome
            /\ local_version_str' = local
            /\ server_version_str' = IF local = None THEN None ELSE srv
            /\ update_chain' = IF outcome = "update"
                               THEN get_update_chain(local, srv, get_version_list(lst.lines))
                               ELSE <<>>
            /\ pc' = IF outcome = "update" THEN "confirm"
                     ELSE IF outcome \in {"too_low", "declined", "uptodate"} THEN "exit"
                     ELSE "ask_retry_check"
    /\ UNCHANGED <<fsVars, pkg, published, codec, loopVars, UPDATE_WARNINGS, applyLocals, fetch,
                   h, walked, events, twice>>

\* ask_retry_or_exit after a failed check: Y.  The next pass assigns
\* local_version_str and server_version_str before it reads them, so the
\* model forgets them here.
RetryCheck ==
    /\ pc = "ask_retry_check"
    /\ pc' = "check"
    /\ local_version_str' = None
    /\ server_version_str' = None
    /\ report' = "none"
    /\ UNCHANGED <<fsVars, pkg, update_chain, published, codec, loopVars,
                   UPDATE_WARNINGS, applyLocals, fetch, h, walked, events, twice>>

\* ask_retry_or_exit after a failed check: N
QuitCheck ==
    /\ pc = "ask_retry_check"
    /\ pc' = "exit"
    /\ UNCHANGED <<fsVars, pkg, chainVars, loopVars, report, UPDATE_WARNINGS,
                   applyLocals, fetch, h, walked, events, twice>>

(***************************************************************************)
(* main, lines 486-530: the update loop.                                   *)
(***************************************************************************)
\* "download and install?": Y.  The warnings are cleared and the chain is
\* walked from its first element.
ConfirmYes ==
    /\ pc = "confirm"
    /\ UPDATE_WARNINGS' = <<>>
    /\ idx' = 1
    /\ events' = <<>>
    /\ pc' = "download"
    /\ UNCHANGED <<fsVars, pkg, chainVars, faults, report, applyLocals, fetch,
                   h, walked, twice>>

\* "download and install?": N
ConfirmNo ==
    /\ pc = "confirm"
    /\ pc' = "exit"
    /\ UNCHANGED <<fsVars, pkg, chainVars, loopVars, report, UPDATE_WARNINGS,
                   applyLocals, fetch, h, walked, events, twice>>

(***************************************************************************)
(* download_update, lines 200-245.                                         *)
(***************************************************************************)
\* n operations of the environment fail in one step; a run of main is
\* bounded to MaxFaults of them
Faults(n) ==
    IF twice.n = 0 THEN faults + n <= MaxFaults /\ faults' = faults + n
    ELSE faults' = faults
Fault == Faults(1)
NoFault == faults' = faults

\* how a download_update call ends.  ret is "ok" (the path is returned),
\* "fail" (None is returned) or "crash" (an exception neither except clause
\* catches leaves download_update and main).
FetchReturn(version, z, w, f, p) ==
    /\ zips' = IF f.wrote THEN z \cup {version} ELSE z
    /\ UPDATE_WARNINGS' = w
    /\ fetch' = f
    /\ events' = Append(events, [op |-> "fetch", i |-> idx, res |-> f.ret,
                                  hard |-> f.why, rb |-> "none",
                                  soft |-> IF w = UPDATE_WARNINGS THEN {}
                                           ELSE {"stale"}])
    /\ pkg' = IF f.ret = "ok" THEN p ELSE NoPkg
    /\ target_version' = IF f.ret = "ok" THEN version ELSE target_version
    /\ pc' = IF f.ret = "ok" THEN "apply"
             ELSE IF f.ret = "fail" THEN "ask_retry_update" ELSE "crashed"
    /\ report' = IF f.ret = "ok" THEN report
                 ELSE IF f.ret = "fail" THEN "failed" ELSE "crashed"

DownloadUpdate ==
    /\ pc = "download"
    /\ LET version == update_chain[idx]
           stale == version \in zips
       IN  \E staleOk \in IF stale THEN BOOLEAN ELSE {TRUE} :
           LET \* lines 209-214: the left-over package is removed, or a warning
               z == IF staleOk THEN zips \ {version} ELSE zips
               w == IF staleOk THEN UPDATE_WARNINGS
                    ELSE Append(UPDATE_WARNINGS, <<"stale">>)
               n == IF staleOk THEN 0 ELSE 1
           IN  \* requests.get or raise_for_status raises
               \/ \E why \in {"timeout", "request"} :
                     /\ Faults(n + 1)
                     /\ FetchReturn(version, z, w,
                            [NoFetch EXCEPT !.ret = "fail", !.why = why], NoPkg)
               \* int() of a content-length that is no number: ValueError
               \/ /\ Faults(n + 1)
                  /\ FetchReturn(version, z, w,
                         [NoFetch EXCEPT !.ret = "crash", !.why = "header"], NoPkg)
               \/ \E size \in Sizes, free \in FreeSpace, usage \in BOOLEAN :
                     LET f == [NoFetch EXCEPT !.size = size, !.free = free, !.usage = usage]
                         u == IF usage THEN n ELSE n + 1
                     IN  IF ~check_disk_space(size, free, usage)
                         THEN /\ Faults(u)
                              /\ FetchReturn(version, z, w,
                                     [f EXCEPT !.ret = "fail", !.why = "diskspace"], NoPkg)
                         ELSE \* open(update_file, "wb") raises OSError
                              \/ /\ Faults(u + 1)
                                 /\ FetchReturn(version, z, w,
                                        [f EXCEPT !.ret = "crash", !.why = "open"], NoPkg)
                              \* the connection breaks while streaming
                              \/ /\ Faults(u + 1)
                                 /\ FetchReturn(version, z, w,
                                        [f EXCEPT !.ret = "fail", !.why = "stream",
                                                  !.wrote = TRUE], NoPkg)
                              \* f.write raises OSError
                              \/ /\ Faults(u + 1)
                                 /\ FetchReturn(version, z, w,
                                        [f EXCEPT !.ret = "crash", !.why = "write",
                                                  !.wrote = TRUE], NoPkg)
                              \/ \E p \in ServedPackages :
                                    /\ Faults(u)
                                    /\ FetchReturn(version, z, w,
                                           [f EXCEPT !.ret = "ok", !.wrote = TRUE], p)
    /\ UNCHANGED <<marker, tree, temp, chainVars, idx, backup_version,
                   result, delTodo, walkTodo, h, walked, twice>>

(***************************************************************************)
(* apply_update, lines 247-335, one action per step.                       *)
(***************************************************************************)
\* a variant that puts the warning first
prepend_warning(w) == UPDATE_WARNINGS' = <<w>> \o UPDATE_WARNINGS

\* a variant that loses the warning
drop_warning(w) == UPDATE_WARNINGS' = UPDATE_WARNINGS

\* add_warning
add_warning(w) == UPDATE_WARNINGS' = Append(UPDATE_WARNINGS, w)

\* a variant that stages into the work area an earlier run left behind
ReusedTemp(version) ==
    IF temp.exists THEN temp ELSE [NoTemp EXCEPT !.exists = TRUE, !.ver = version]

\* lines 255-257: TEMP_UPDATE removed and made again, empty, for version
EmptyTemp(version) == [NoTemp EXCEPT !.exists = TRUE, !.ver = version]

\* os.path.exists of a path a delete-list names
PathExists(p) ==
    IF p = MarkerPath THEN marker # None
    ELSE IF p = DirPath THEN tree.dir
    ELSE tree.files[p] # Absent

\* a variant that removes nothing
RemoveNothing(p, t) == t

\* the tree after shutil.rmtree / os.remove of a path in it
RemovePath(p, t) ==
    IF p = DirPath THEN [dir |-> FALSE, files |-> [f \in Files |-> Absent]]
    ELSE IF p \in Files THEN [t EXCEPT !.files[p] = Absent]
    ELSE t

\* TEMP_UPDATE t after the package p was extracted into it: extractall adds
\* to what the directory holds and overwrites the files of the same name
ExtractedTemp(t, p) ==
    [exists |-> TRUE, ver |-> t.ver, files |-> t.files \cup p.files,
     dir |-> t.dir \/ p.dir, hasDel |-> t.hasDel \/ p.hasDel,
     del |-> IF p.hasDel THEN p.del ELSE t.del]

\* a variant that goes from the delete-list straight to the marker write
SkipOverlay == "commit"

\* the statement the delete-list block falls through to: the overlay walk
\* (line 283)
AfterCleanse == "walk_root"

\* a variant that returns from the except clause without the finally clause
SkipFinally == "returned"

\* where the outer except hands over: the finally clause (line 328)
AfterExcept == "finally"

\* what shutil.copy2 leaves in a target file that held old: the source's
\* content
Copied(old, new) == new

\* what of a package extractall has written when it raises: nothing yet, or
\* all of it
PartsOf(p) == {NoPkg, p}

\* lines 252-257: the snapshot of the marker, then a fresh TEMP_UPDATE
Staged ==
    /\ pc = "apply"
    /\ backup_version' = get_local_version(marker)
    /\ fetch' = NoFetch
    /\ events' = IF twice.n = 0
                 THEN Append(events, [op |-> "apply", i |-> idx, res |-> "begun",
                                      hard |-> "none", rb |-> "none",
                                      soft |-> {}])
                 ELSE events
    /\ LET h0 == FreshApply(marker, tree)
       IN  \/ /\ temp.exists            \* shutil.rmtree(TEMP_DIR) raises
              /\ Fault
              /\ temp' = temp
              /\ h' = [h0 EXCEPT !.hard = "stage_rmtree"]
              /\ pc' = "failed"
           \/ /\ Fault                  \* os.makedirs(TEMP_DIR) raises
              /\ temp' = NoTemp
              /\ h' = [h0 EXCEPT !.hard = "stage_mkdir"]
              /\ pc' = "failed"
           \/ /\ NoFault
              /\ temp' = EmptyTemp(target_version)
              /\ h' = h0
              /\ pc' = "extract"
    /\ UNCHANGED <<marker, tree, zips, pkg, chainVars, idx, report,
                   UPDATE_WARNINGS, target_version, result, delTodo, walkTodo,
                   walked, twice>>

\* lines 259-260: extractall
Extracted ==
    /\ pc = "extract"
    /\ \/ /\ NoFault
          /\ temp' = ExtractedTemp(temp, pkg)
          /\ h' = h
          /\ pc' = "cleanse"
       \/ \E q \in PartsOf(pkg) :       \* a corrupt archive, a full disk
          /\ Fault
          /\ temp' = ExtractedTemp(temp, q)
          /\ h' = [h EXCEPT !.hard = "extract"]
          /\ pc' = "failed"
    /\ UNCHANGED <<marker, tree, zips, pkg, chainVars, idx, report,
                   UPDATE_WARNINGS, applyLocals, fetch, walked, events, twice>>

\* lines 263-267: the delete-list is looked for, opened and read (a failure
\* to open or to read it leaves the try block before any removal)
CleanseOpen ==
    /\ pc = "cleanse"
    /\ IF ~temp.hasDel
       THEN /\ NoFault
            /\ delTodo' = {}
            /\ h' = h
            /\ pc' = AfterCleanse
       ELSE \/ /\ NoFault
               /\ delTodo' = temp.del
               /\ h' = h
               /\ pc' = "cleanse_loop"
            \/ /\ Fault                 \* open or the first read raises
               /\ delTodo' = {}
               /\ h' = [h EXCEPT !.hard = "dellist"]
               /\ pc' = "failed"
    /\ UNCHANGED <<fsVars, pkg, chainVars, idx, report,
                   UPDATE_WARNINGS, target_version, backup_version, result,
                   walkTodo, fetch, walked, events, twice>>

\* lines 267-278: one line of the delete-list
CleanseEntry ==
    /\ pc = "cleanse_loop"
    /\ \E p \in delTodo :
        /\ delTodo' = delTodo \ {p}
        /\ IF ~PathExists(p)
           THEN /\ NoFault
                /\ UNCHANGED <<marker, tree, UPDATE_WARNINGS, h>>
           ELSE \/ /\ NoFault
                   /\ marker' = IF p = MarkerPath THEN None ELSE marker
                   /\ tree' = RemovePath(p, tree)
                   /\ h' = [h EXCEPT !.lateDelete = @ \/ h.copied # {},
                                     !.removed = @ \cup {p}]
                   /\ UNCHANGED UPDATE_WARNINGS
                \/ /\ Fault                    \* rmtree / remove raises
                   /\ add_warning(<<"delete">>)
                   /\ h' = [h EXCEPT !.soft = @ \cup {"delete"}]
                   /\ UNCHANGED <<marker, tree>>
    /\ pc' = "cleanse_loop"
    /\ UNCHANGED <<temp, zips, pkg, chainVars, idx, report,
                   target_version, backup_version, result, walkTodo, fetch,
                   walked, events, twice>>

\* line 279: the delete-list is exhausted
CleanseDone ==
    /\ pc = "cleanse_loop"
    /\ delTodo = {}
    /\ pc' = AfterCleanse
    /\ UNCHANGED <<fsVars, pkg, chainVars, loopVars, report, UPDATE_WARNINGS,
                   applyLocals, fetch, h, walked, events, twice>>

\* lines 283-297 for the root of TEMP_UPDATE: the delete-list file is taken
\* out of the files, the install root exists, and the root holds no other
\* file.  os.walk is taken to list the directories it has just extracted.
OverlayRoot ==
    /\ pc = "walk_root"
    /\ IF temp.dir
       THEN /\ pc' = "walk_dir"
            /\ UNCHANGED <<h, walked>>
       ELSE /\ pc' = "commit"
            /\ h' = [h EXCEPT !.walkDone = TRUE, !.overlaid = tree]
            /\ walked' = walked \cup {target_version}
    /\ UNCHANGED <<fsVars, pkg, chainVars, loopVars, report, UPDATE_WARNINGS,
                   applyLocals, fetch, events, twice>>

\* lines 285-294 for TEMP_UPDATE/OldAssets: the target directory is made
\* when it is missing
OverlayEnterDir ==
    /\ pc = "walk_dir"
    /\ \/ /\ NoFault
          /\ tree' = [tree EXCEPT !.dir = TRUE]
          /\ walkTodo' = temp.files
          /\ h' = h
          /\ pc' = "walk_files"
       \/ /\ ~tree.dir                  \* os.makedirs(target_root) raises
          /\ Fault
          /\ UNCHANGED <<tree, walkTodo>>
          /\ h' = [h EXCEPT !.hard = "overlay_mkdir"]
          /\ pc' = "failed"
    /\ UNCHANGED <<marker, temp, zips, pkg, chainVars, idx, report,
                   UPDATE_WARNINGS, target_version, backup_version, result,
                   delTodo, fetch, walked, events, twice>>

\* lines 297-304: one file of the directory
OverlayCopy ==
    /\ pc = "walk_files"
    /\ \E file \in walkTodo :
        /\ walkTodo' = walkTodo \ {file}
        /\ \/ /\ NoFault
              /\ tree' = [tree EXCEPT !.files[file] = Copied(@, temp.ver)]
              /\ h' = [h EXCEPT !.copied = @ \cup {file}]
              /\ UNCHANGED UPDATE_WARNINGS
           \/ /\ Fault                         \* shutil.copy2 raises
              /\ add_warning(<<"copy", file>>)
              /\ h' = [h EXCEPT !.soft = @ \cup {"copy"}]
              /\ UNCHANGED tree
    /\ pc' = "walk_files"
    /\ UNCHANGED <<marker, temp, zips, pkg, chainVars, idx, report,
                   target_version, backup_version, result, delTodo, fetch,
                   walked, events, twice>>

\* line 306: os.walk is exhausted
OverlayDone ==
    /\ pc = "walk_files"
    /\ walkTodo = {}
    /\ h' = [h EXCEPT !.walkDone = TRUE, !.overlaid = tree]
    /\ walked' = walked \cup {target_version}
    /\ pc' = "commit"
    /\ UNCHANGED <<fsVars, pkg, chainVars, loopVars, report, UPDATE_WARNINGS,
                   applyLocals, fetch, events, twice>>

\* a variant that writes the version the server announced
AnnouncedText(version) == server_version_str

\* line 310: the text f.write puts into LOC_VER.txt
CommittedText(version) == version

\* lines 309-313: the marker is written
Committed ==
    /\ pc = "commit"
    /\ \/ /\ NoFault
          /\ marker' = CommittedText(target_version)
          /\ result' = TRUE
          /\ h' = h
          /\ pc' = "finally"
       \/ \E m \in FailedWrite(marker) :
          /\ Fault
          /\ marker' = m
          /\ result' = result
          /\ h' = [h EXCEPT !.hard = "commit"]
          /\ pc' = "failed"
    /\ UNCHANGED <<tree, temp, zips, pkg, chainVars, idx, report,
                   UPDATE_WARNINGS, target_version, backup_version, delTodo,
                   walkTodo, fetch, walked, events, twice>>

\* lines 315-327: the outer except
Failed ==
    /\ pc = "failed"
    /\ result' = FALSE
    /\ IF Truthy(backup_version)
       THEN \/ /\ NoFault
               /\ marker' = backup_version
               /\ h' = [h EXCEPT !.restore = "ok"]
               /\ UNCHANGED UPDATE_WARNINGS
            \/ \E m \in FailedWrite(marker) :
               /\ Fault
               /\ marker' = m
               /\ h' = [h EXCEPT !.restore = "failed", !.soft = @ \cup {"restore"}]
               /\ add_warning(<<"restore">>)
       ELSE /\ NoFault
            /\ h' = [h EXCEPT !.restore = "skipped"]
            /\ UNCHANGED <<marker, UPDATE_WARNINGS>>
    /\ pc' = AfterExcept
    /\ UNCHANGED <<tree, temp, zips, pkg, chainVars, idx, report,
                   target_version, backup_version, delTodo, walkTodo, fetch,
                   walked, events, twice>>

\* lines 328-335: the finally
CleanupTemp ==
    /\ pc = "finally"
    /\ IF temp.exists
       THEN \/ /\ NoFault
               /\ temp' = NoTemp
               /\ h' = [h EXCEPT !.cleanup = "removed"]
               /\ UNCHANGED UPDATE_WARNINGS
            \/ /\ Fault                 \* shutil.rmtree(TEMP_DIR) raises
               /\ temp' = temp
               /\ h' = [h EXCEPT !.cleanup = "failed", !.soft = @ \cup {"temp"}]
               /\ add_warning(<<"temp">>)
       ELSE /\ NoFault
            /\ h' = [h EXCEPT !.cleanup = "absent"]
            /\ UNCHANGED <<temp, UPDATE_WARNINGS>>
    /\ pc' = "returned"
    /\ UNCHANGED <<marker, tree, zips, pkg, chainVars, idx, report,
                   applyLocals, fetch, walked, events, twice>>

(***************************************************************************)
(* main, lines 507-525: after apply_update.                                *)
(***************************************************************************)
\* lines 507-520: the chain stops on a failure; else the package is cleaned
\* up (cleanup_update_package) and the loop goes on or ends with the summary
AfterApply ==
    /\ pc = "returned"
    /\ twice.n = 0
    /\ pkg' = NoPkg
    /\ LET done == [op |-> "apply", i |-> idx,
                    res |-> IF result THEN "ok" ELSE "fail",
                    hard |-> h.hard, rb |-> h.restore, soft |-> h.soft]
       IN  IF ~result
           THEN /\ NoFault
                /\ report' = "failed"
                /\ pc' = "ask_retry_update"
                /\ events' = [events EXCEPT ![Len(events)] = done]
                /\ UNCHANGED <<zips, UPDATE_WARNINGS, idx>>
           ELSE /\ \/ /\ NoFault
                      /\ zips' = zips \ {update_chain[idx]}
                      /\ events' = [events EXCEPT ![Len(events)] = done]
                      /\ UNCHANGED UPDATE_WARNINGS
                   \/ /\ update_chain[idx] \in zips     \* os.remove raises
                      /\ Fault
                      /\ zips' = zips
                      /\ events' = [events EXCEPT ![Len(events)] =
                            [done EXCEPT !.soft = @ \cup {"pkgclean"}]]
                      /\ add_warning(<<"pkgclean">>)
                /\ IF idx = Len(update_chain)
                   THEN /\ report' = "success"
                        /\ pc' = "summary"
                        /\ idx' = idx
                   ELSE /\ report' = report
                        /\ pc' = "download"
                        /\ idx' = idx + 1
    /\ h' = FreshApply(None, NotTwice.tree)
    /\ UNCHANGED <<marker, tree, temp, chainVars, applyLocals, fetch, walked,
                   twice>>

\* ask_retry_or_exit after a failed update: Y, back to "download and install?"
RetryUpdate ==
    /\ pc = "ask_retry_update"
    /\ pc' = "confirm"
    /\ UNCHANGED <<fsVars, pkg, chainVars, loopVars, report, UPDATE_WARNINGS,
                   applyLocals, fetch, h, walked, events, twice>>

\* ask_retry_or_exit after a failed update: N
QuitUpdate ==
    /\ pc = "ask_retry_update"
    /\ pc' = "exit"
    /\ UNCHANGED <<fsVars, pkg, chainVars, loopVars, report, UPDATE_WARNINGS,
                   applyLocals, fetch, h, walked, events, twice>>

\* lines 518-520: the summary is shown and user_choice_and_exit ends the program
Finish ==
    /\ pc = "summary"
    /\ pc' = "exit"
    /\ UNCHANGED <<fsVars, pkg, chainVars, loopVars, report, UPDATE_WARNINGS,
                   applyLocals, fetch, h, walked, events, twice>>

ApplyNext ==
    \/ Staged \/ Extracted \/ CleanseOpen \/ CleanseEntry \/ CleanseDone
    \/ OverlayRoot \/ OverlayEnterDir \/ OverlayCopy \/ OverlayDone
    \/ Committed \/ Failed \/ CleanupTemp

Next ==
    \/ CheckForUpdates \/ RetryCheck \/ QuitCheck
    \/ ConfirmYes \/ ConfirmNo
    \/ DownloadUpdate
    \/ ApplyNext
    \/ AfterApply \/ RetryUpdate \/ QuitUpdate \/ Finish

Spec == Init /\ [][Next]_vars

(***************************************************************************)
(* SpecTwice: apply_update called on any install root, any marker and any  *)
(* package, and then once more on the same package.                        *)
(***************************************************************************)
\* a TEMP_UPDATE an earlier run left behind
LeftOverTemp == [exists |-> TRUE, ver |-> V10, files |-> {FOld}, dir |-> TRUE,
                 hasDel |-> FALSE, del |-> {}]

InitTwice ==
    /\ pc = "apply"
    /\ marker \in {None, Vempty, V10nl}
    /\ tree \in InitTrees
    /\ temp \in {NoTemp, LeftOverTemp}
    /\ zips = {V11}
    /\ pkg \in Packages
    /\ local_version_str = V10
    /\ server_version_str = V11
    /\ update_chain = <<V11>>
    /\ published = <<V11>>
    /\ codec = NoCodec
    /\ idx = 1
    /\ faults = 0
    /\ report = "none"
    /\ UPDATE_WARNINGS = <<>>
    /\ target_version = V11
    /\ backup_version = None
    /\ result = FALSE
    /\ delTodo = {}
    /\ walkTodo = {}
    /\ fetch = NoFetch
    /\ h = FreshApply(None, NotTwice.tree)
    /\ walked = {}
    /\ events = <<>>
    /\ twice = [NotTwice EXCEPT !.n = 1]

\* the caller applies the package it has just applied once more
Reapply ==
    /\ pc = "returned"
    /\ twice.n = 1
    /\ twice' = [n |-> 2, tree |-> tree, marker |-> marker,
                 clean |-> result /\ UPDATE_WARNINGS = <<>>]
    /\ pc' = "apply"
    /\ UNCHANGED <<fsVars, pkg, chainVars, loopVars, report, UPDATE_WARNINGS,
                   applyLocals, fetch, h, walked, events>>

NextTwice == ApplyNext \/ Reapply

SpecTwice == InitTwice /\ [][NextTwice]_vars

(***************************************************************************)
(* SpecChain: get_update_chain on any current version, target version and  *)
(* published list.                                                         *)
(***************************************************************************)
InitChain ==
    /\ pc = "resolve"
    /\ local_version_str \in ChainPool
    /\ server_version_str \in ChainPool
    /\ published \in SeqsUpTo(ChainPool, MaxPublished)
    /\ codec = NoCodec
    /\ update_chain = <<>>
    /\ marker = None
    /\ tree = NotTwice.tree
    /\ temp = NoTemp
    /\ zips = {}
    /\ pkg = NoPkg
    /\ idx = 0
    /\ faults = 0
    /\ report = "none"
    /\ UPDATE_WARNINGS = <<>>
    /\ target_version = None
    /\ backup_version = None
    /\ result = FALSE
    /\ delTodo = {}
    /\ walkTodo = {}
    /\ fetch = NoFetch
    /\ h = FreshApply(None, NotTwice.tree)
    /\ walked = {}
    /\ events = <<>>
    /\ twice = NotTwice

\* line 467: update_chain = get_update_chain(...)
ResolveChain ==
    /\ pc = "resolve"
    /\ update_chain' = get_update_chain(local_version_str, server_version_str,
                                        published)
    /\ pc' = "resolved"
    /\ UNCHANGED <<fsVars, pkg, local_version_str, server_version_str,
                   published, codec, loopVars, report, UPDATE_WARNINGS,
                   applyLocals, fetch, h, walked, events, twice>>

NextChain == ResolveChain

SpecChain == InitChain /\ [][NextChain]_vars

(***************************************************************************)
(* SpecCodec: format_version, parse_version and the list comparison on any *)
(* three versions.                                                         *)
(***************************************************************************)
\* the segments the versions are made of: one and two digits
SegValues == {0, 2, 10}

\* the valid versions: one to MaxSegments segments
CodecVersions == SeqsUpTo(SegValues, MaxSegments) \ {<<>>}

InitCodec ==
    /\ pc = "codec"
    /\ codec \in {[NoCodec EXCEPT !.a = x, !.b = y, !.c = z] :
                     x \in CodecVersions, y \in CodecVersions, z \in CodecVersions}
    /\ local_version_str = None
    /\ server_version_str = None
    /\ published = <<>>
    /\ update_chain = <<>>
    /\ marker = None
    /\ tree = NotTwice.tree
    /\ temp = NoTemp
    /\ zips = {}
    /\ pkg = NoPkg
    /\ idx = 0
    /\ faults = 0
    /\ report = "none"
    /\ UPDATE_WARNINGS = <<>>
    /\ target_version = None
    /\ backup_version = None
    /\ result = FALSE
    /\ delTodo = {}
    /\ walkTodo = {}
    /\ fetch = NoFetch
    /\ h = FreshApply(None, NotTwice.tree)
    /\ walked = {}
    /\ events = <<>>
    /\ twice = NotTwice

\* a is formatted and parsed back, and every two of a, b, c are compared
\* with the list comparison of lines 195, 430 and 465
RoundTrip ==
    /\ pc = "codec"
    /\ codec' = [codec EXCEPT
                    !.text = format_version(codec.a),
                    !.back = parse_version(format_version(codec.a)),
                    !.less = {p \in {"a", "b", "c"} \X {"a", "b", "c"} :
                                 ListLess(codec[p[1]], codec[p[2]])}]
    /\ pc' = "codec_done"
    /\ UNCHANGED <<fsVars, pkg, local_version_str, server_version_str,
                   update_chain, published, loopVars, report, UPDATE_WARNINGS,
                   applyLocals, fetch, h, walked, events, twice>>

NextCodec == RoundTrip

SpecCodec == InitCodec /\ [][NextCodec]_vars

(***************************************************************************)
(* Properties.                                                             *)
(***************************************************************************)
\* whether the warning log holds a warning of the kind
HasWarning(kind) ==
    \E j \in 1..Len(UPDATE_WARNINGS) : UPDATE_WARNINGS[j][1] = kind

LastEvent == events[Len(events)]

\* C1: the marker is rewritten to target_version only after the overlay walk
\* has run to its end.  In no state does the marker hold target_version
\* unless the walk for that version has completed, and apply_update is on
\* its successful way out only when the walk of this call has completed.
C1_MarkerAfterWalk ==
    /\ marker = target_version => target_version \in walked
    /\ (pc \in {"finally", "returned"} /\ result) => h.walkDone

\* an apply that overwrote the marker although a removal and a copy failed
C1_Witness ==
    /\ pc = "returned"
    /\ result
    /\ marker = target_version
    /\ h.before # target_version
    /\ h.walkDone
    /\ {"delete", "copy"} \subseteq h.soft

\* C2: rollback.  When apply_update has failed hard and its restore step did
\* not fail, it returns False and the marker holds the version it held
\* before the call; a restore that ran left the snapshot's text.
C2_Rollback ==
    (pc = "returned" /\ h.hard # "none" /\ h.restore # "failed") =>
        /\ ~result
        /\ parse_version(marker) = parse_version(h.before)
        /\ h.restore = "ok" => marker = Strip(h.before)

\* the delete-list removed the marker, the overlay could not make its
\* directory, and the restore wrote the marker again
C2_Witness ==
    /\ pc = "returned"
    /\ h.hard = "overlay_mkdir"
    /\ h.restore = "ok"
    /\ MarkerPath \in h.removed
    /\ marker = V10
    /\ h.before = V10nl

\* the attempt ended when apply_update failed on element k of the chain
ApplyFailedAt(k) ==
    /\ events # <<>>
    /\ LastEvent.op = "apply"
    /\ LastEvent.res = "fail"
    /\ LastEvent.i = k

\* nothing was fetched or applied for an element after the k-th
NothingAfter(k) == \A j \in 1..Len(events) : events[j].i <= k

\* C3 as stated: when applying element k > 1 fails hard, the attempt ends
\* with the marker at the version of element k-1 and with no fetch or apply
\* for a later element.
C3_ForwardProgress ==
    \A k \in 2..Len(update_chain) :
        ApplyFailedAt(k) =>
            /\ parse_version(marker) = parse_version(update_chain[k - 1])
            /\ NothingAfter(k)

\* C3 amended: the same, for a failed apply whose restore step did not fail.
C3_ForwardProgressRestored ==
    \A k \in 2..Len(update_chain) :
        (ApplyFailedAt(k) /\ LastEvent.rb # "failed") =>
            /\ marker = update_chain[k - 1]
            /\ NothingAfter(k)

\* a chain of three whose second element failed and was rolled back
C3_Witness ==
    /\ Len(update_chain) = 3
    /\ ApplyFailedAt(2)
    /\ LastEvent.rb = "ok"
    /\ marker = update_chain[1]
    /\ update_chain[1] # update_chain[2]
    /\ pc = "ask_retry_update"

\* the events of the attempt follow the chain: element 1 is fetched first,
\* an element is applied right after its fetch succeeded, and the next
\* element is fetched right after an apply succeeded
InChainOrder ==
    \A j \in 1..Len(events) :
        /\ events[j].op = "fetch" =>
              \/ j = 1 /\ events[j].i = 1
              \/ /\ j > 1
                 /\ events[j - 1].op = "apply"
                 /\ events[j - 1].res = "ok"
                 /\ events[j].i = events[j - 1].i + 1
        /\ events[j].op = "apply" =>
              /\ j > 1
              /\ events[j - 1].op = "fetch"
              /\ events[j - 1].res = "ok"
              /\ events[j].i = events[j - 1].i

\* C4: elements are fetched and applied in chain order, the next one only
\* after the one before was committed; a failed fetch ends the attempt
\* without an apply, the attempt is reported as failed, and the marker keeps
\* the version of the last committed element; success is reported only when
\* every element was committed.
C4_FetchApplyInOrder ==
    /\ InChainOrder
    /\ (events # <<>> /\ LastEvent.op = "fetch" /\ LastEvent.res # "ok") =>
          /\ report = "failed"
          /\ pc \in {"ask_retry_update", "confirm", "exit"}
          /\ LastEvent.i > 1 =>
                parse_version(marker) = parse_version(update_chain[LastEvent.i - 1])
    /\ report = "success" =>
          \A k \in 1..Len(update_chain) :
              \E j \in 1..Len(events) :
                  /\ events[j].op = "apply"
                  /\ events[j].i = k
                  /\ events[j].res = "ok"

\* C4 without the crash: the same, where a fetch that ends the program with
\* an uncaught exception counts as the end of the attempt.
C4_ExceptCrash ==
    /\ InChainOrder
    /\ (events # <<>> /\ LastEvent.op = "fetch" /\ LastEvent.res # "ok") =>
          /\ report \in {"failed", "crashed"}
          /\ pc \in {"ask_retry_update", "confirm", "exit", "crashed"}
          /\ LastEvent.i > 1 =>
                parse_version(marker) = parse_version(update_chain[LastEvent.i - 1])
    /\ report = "success" =>
          \A k \in 1..Len(update_chain) :
              \E j \in 1..Len(events) :
                  /\ events[j].op = "apply"
                  /\ events[j].i = k
                  /\ events[j].res = "ok"

\* a < b on versions by their segments: the first segment that differs
\* decides, and a version that is the start of a longer one comes first
VersionLess(a, b) ==
    \/ \E k \in 1..Len(a) :
          /\ k <= Len(b)
          /\ \A j \in 1..(k - 1) : a[j] = b[j]
          /\ a[k] < b[k]
    \/ /\ Len(a) < Len(b)
       /\ \A j \in 1..Len(a) : a[j] = b[j]

\* current < v <= target, for three texts that all parse to versions
InRange(v, current, target) ==
    LET pv == parse_version(v)
        pc_ == parse_version(current)
        pt == parse_version(target)
    IN  /\ pv # <<>> /\ pc_ # <<>> /\ pt # <<>>
        /\ VersionLess(pc_, pv)
        /\ pv = pt \/ VersionLess(pv, pt)

\* the published list ascends by version
Ascending(l) ==
    \A i \in 1..Len(l), j \in 1..Len(l) :
        i < j => /\ parse_version(l[i]) # <<>>
                 /\ parse_version(l[j]) # <<>>
                 /\ ~VersionLess(parse_version(l[j]), parse_version(l[i]))

\* C5: get_update_chain returns exactly the elements v of the published
\* list with current < v <= target, in the order of the list (for an
\* ascending list, and for any other list too); the chain is empty when the
\* list is empty or current or target does not parse; and "1.0.0" to
\* "1.2.0" over ["1.0.0","1.1.0","1.1.5","1.2.0"] gives
\* ["1.1.0","1.1.5","1.2.0"].
C5_ChainIsRange ==
    pc = "resolved" =>
        /\ update_chain =
              SelectSeq(published,
                        LAMBDA v : InRange(v, local_version_str, server_version_str))
        /\ ( \/ published = <<>>
             \/ parse_version(local_version_str) = <<>>
             \/ parse_version(server_version_str) = <<>> ) => update_chain = <<>>
        /\ ( /\ local_version_str = V100
             /\ server_version_str = V120
             /\ published = <<V100, V110, V115, V120>> )
               => update_chain = <<V110, V115, V120>>

\* the scenario of the claim, resolved
C5_Witness ==
    /\ pc = "resolved"
    /\ local_version_str = V100
    /\ server_version_str = V120
    /\ published = <<V100, V110, V115, V120>>
    /\ Ascending(published)
    /\ update_chain = <<V110, V115, V120>>

\* C6: every apply_update call runs the finally clause before it returns.
\* On return TEMP_UPDATE does not exist unless its removal failed, and then
\* the warning is in the log; what the call returns is decided by the hard
\* failures alone.  When the extraction failed, the marker is restored and
\* TEMP_UPDATE is removed all the same.
C6_CleanupAlways ==
    pc = "returned" =>
        /\ h.cleanup \in {"removed", "failed", "absent"}
        /\ temp.exists => (h.cleanup = "failed" /\ HasWarning("temp"))
        /\ result <=> h.hard = "none"
        /\ h.hard = "extract" =>
              /\ h.restore # "failed" =>
                    parse_version(marker) = parse_version(h.before)
              /\ h.cleanup # "failed" => ~temp.exists

\* the extraction failed with part of the package on disk; the marker was
\* restored and TEMP_UPDATE removed
C6_Witness ==
    /\ pc = "returned"
    /\ h.hard = "extract"
    /\ h.restore = "ok"
    /\ marker = V10
    /\ h.cleanup = "removed"
    /\ ~temp.exists
    /\ ~result

\* C7 amended: a failed removal of a stale package, of a delete-list path,
\* of TEMP_UPDATE in the finally clause or of the package file, and a failed
\* file copy, each leave a warning in the log and abort nothing: a fetch
\* fails only for a reason of its own, an apply returns False only after a
\* hard failure, and after a successful apply the loop goes on.
C7_FileFailuresAbsorbed ==
    /\ \A j \in 1..Len(events) :
          /\ \A k \in events[j].soft : HasWarning(k)
          /\ (events[j].op = "apply" /\ events[j].res # "begun") =>
                (events[j].res = "ok" <=> events[j].hard = "none")
          /\ events[j].op = "fetch" =>
                (events[j].res = "ok" <=> events[j].hard = "")
    /\ \A k \in h.soft : HasWarning(k)
    /\ pc = "returned" => (result <=> h.hard = "none")
    /\ (events # <<>> /\ LastEvent.op = "apply" /\ LastEvent.res = "ok") =>
          pc \in {"download", "summary", "exit"}

\* C7 as stated: the same, and a failed creation of an overlay directory
\* aborts no apply either.
C7_NoFileFailureAborts ==
    /\ C7_FileFailuresAbsorbed
    /\ h.hard # "overlay_mkdir"
    /\ \A j \in 1..Len(events) : events[j].hard # "overlay_mkdir"

\* an element was committed although a copy failed, and the next element
\* is being fetched
C7_Witness ==
    /\ Len(events) >= 3
    /\ events[2].op = "apply"
    /\ events[2].res = "ok"
    /\ "copy" \in events[2].soft
    /\ events[3].op = "fetch"
    /\ HasWarning("copy")

\* C8: when the marker write of the commit step fails, apply_update returns
\* False and, with a snapshot to restore, rewrites the marker with it; a
\* restore that fails leaves a warning, the finally clause still runs, and
\* the install root keeps what the overlay wrote.
C8_CommitWriteFails ==
    (pc = "returned" /\ h.hard = "commit") =>
        /\ ~result
        /\ (backup_version # None /\ backup_version # <<>>) =>
              h.restore \in {"ok", "failed"}
        /\ h.restore = "ok" => marker = backup_version
        /\ h.restore = "failed" => HasWarning("restore")
        /\ h.cleanup \in {"removed", "failed", "absent"}
        /\ h.walkDone
        /\ tree = h.overlaid

\* the commit failed after a file was overlaid, and the restore failed too
C8_Witness ==
    /\ pc = "returned"
    /\ h.hard = "commit"
    /\ h.restore = "failed"
    /\ h.copied # {}
    /\ h.cleanup = "removed"
    /\ ~result

\* C9: no delete-list removal follows an overlay copy.  After an apply
\* without any failure, a path the delete-list names and the package ships
\* holds the package's content, and a directory the delete-list names holds
\* only the files the package ships into it.
C9_DeleteBeforeOverlay ==
    /\ ~h.lateDelete
    /\ (pc = "returned" /\ result /\ h.soft = {}) =>
          /\ \A f \in pkg.files :
                (f \in pkg.del \/ DirPath \in pkg.del) =>
                    tree.dir /\ tree.files[f] = target_version
          /\ DirPath \in pkg.del =>
                \A f \in Files \ pkg.files : tree.files[f] = Absent
          /\ (DirPath \in pkg.del /\ pkg.dir) => tree.dir

\* delete-list "OldAssets/" and shipped "OldAssets/new.dat": the directory
\* was removed and holds new.dat alone
C9_Witness ==
    /\ pc = "returned"
    /\ result
    /\ h.soft = {}
    /\ pkg.del = {DirPath}
    /\ pkg.files = {FNew}
    /\ DirPath \in h.removed
    /\ tree.dir
    /\ tree.files[FNew] = target_version
    /\ tree.files[FOld] = Absent

\* C10: the same package applied twice in a row without any failure, its
\* delete-list not naming the marker, leaves the tree and the marker after
\* the second application as they were after the first.
C10_Idempotent ==
    ( /\ pc = "returned"
      /\ twice.n = 2
      /\ twice.clean
      /\ result
      /\ UPDATE_WARNINGS = <<>>
      /\ MarkerPath \notin pkg.del ) =>
        /\ tree = twice.tree
        /\ marker = twice.marker

\* a package that deletes and ships, applied twice without a failure
C10_Witness ==
    /\ pc = "returned"
    /\ twice.n = 2
    /\ twice.clean
    /\ result
    /\ UPDATE_WARNINGS = <<>>
    /\ pkg.del = {DirPath}
    /\ pkg.files = {FNew}
    /\ tree.files[FNew] = target_version

\* C11: a valid version formatted and parsed again is itself, and the
\* comparison the program uses is a strict total order on the valid
\* versions, of equal or different lengths, that is decided by the first
\* segment that differs (a version that starts a longer one comes first).
C11_CodecOrder ==
    pc = "codec_done" =>
        LET N == {"a", "b", "c"}
            Less(x, y) == <<x, y>> \in codec.less
        IN  /\ codec.back = codec.a
            /\ \A x \in N : ~Less(x, x)
            /\ \A x \in N, y \in N, z \in N :
                  (Less(x, y) /\ Less(y, z)) => Less(x, z)
            /\ \A x \in N, y \in N :
                  /\ Less(x, y) \/ codec[x] = codec[y] \/ Less(y, x)
                  /\ ~(Less(x, y) /\ Less(y, x))
                  /\ ~(Less(x, y) /\ codec[x] = codec[y])
            /\ \A x \in N, y \in N :
                  Less(x, y) <=> VersionLess(codec[x], codec[y])

\* a two-digit segment went through the codec, and versions of different
\* lengths were compared
C11_Witness ==
    /\ pc = "codec_done"
    /\ codec.a = <<10, 2>>
    /\ codec.text = <<"1", "0", ".", "2">>
    /\ codec.back = <<10, 2>>
    /\ codec.b = <<10>>
    /\ codec.c = <<2, 0>>
    /\ codec.less = {<<"b", "a">>, <<"c", "a">>, <<"c", "b">>}

\* download_update has just returned, or raised, with a reported size
Fetched ==
    /\ events # <<>>
    /\ LastEvent.op = "fetch"
    /\ fetch.ret # "none"
    /\ fetch.size > 0

\* the attempt has ended as failed, with no apply for the fetched element
HaltedAtFetch ==
    /\ fetch.ret = "fail"
    /\ report = "failed"
    /\ pc \in {"ask_retry_update", "confirm", "exit"}

\* C12: with a reported size S, download_update writes the package only
\* when the free space is at least 2*S; with less it fails before it writes,
\* nothing is applied for that version and the attempt ends as failed.
C12_DiskPreflight ==
    Fetched =>
        /\ fetch.wrote => fetch.free >= 2 * fetch.size
        /\ fetch.free < 2 * fetch.size => (~fetch.wrote /\ HaltedAtFetch)

\* C12 where shutil.disk_usage answers: the same for the fetches whose
\* free-space reading succeeded; there the package is written only with
\* more than 2*S free.
C12_PreflightWhenMeasured ==
    (Fetched /\ fetch.usage) =>
        /\ fetch.wrote => fetch.free > 2 * fetch.size
        /\ fetch.free <= 2 * fetch.size => (~fetch.wrote /\ HaltedAtFetch)

\* the log after the step starts with the log before it
LogExtended ==
    /\ Len(UPDATE_WARNINGS') >= Len(UPDATE_WARNINGS)
    /\ SubSeq(UPDATE_WARNINGS', 1, Len(UPDATE_WARNINGS)) = UPDATE_WARNINGS

\* C13: the Y answer to "download and install?" that starts an attempt,
\* the first or a retried one, empties the warning log, and every other
\* step leaves the log as it is or adds one warning at its end, and adds
\* one only when an operation failed in that step; so the summary shows the
\* warnings of the attempt in the order they were raised.
C13_WarningLog ==
    [][ /\ (pc = "confirm" /\ pc' = "download") => UPDATE_WARNINGS' = <<>>
        /\ ~(pc = "confirm" /\ pc' = "download") =>
              /\ LogExtended
              /\ Len(UPDATE_WARNINGS') <= Len(UPDATE_WARNINGS) + 1
              /\ Len(UPDATE_WARNINGS') > Len(UPDATE_WARNINGS) => faults' > faults
      ]_vars

\* the summary of a successful attempt with two warnings in the order of
\* their steps: a removal of the delete-list failed, then a copy
C13_Witness ==
    /\ pc = "summary"
    /\ report = "success"
    /\ UPDATE_WARNINGS = << <<"delete">>, <<"copy", FNew>> >>

\* C14: every chain main builds from the server's list is strictly
\* increasing: each element's version is greater than the one before it.
C14_ChainStrictlyIncreasing ==
    \A i \in 1..(Len(update_chain) - 1) :
        VersionLess(parse_version(update_chain[i]),
                    parse_version(update_chain[i + 1]))

\* C14 with repeats: no element's version is smaller than the one before
\* it, and every element parses and lies above the local version and not
\* above the server's.
C14_ChainNeverDecreases ==
    /\ \A i \in 1..(Len(update_chain) - 1) :
          ~VersionLess(parse_version(update_chain[i + 1]),
                       parse_version(update_chain[i]))
    /\ \A i \in 1..Len(update_chain) :
          InRange(update_chain[i], local_version_str, server_version_str)

\* the local version is below the server's, both valid
LocalBelowServer ==
    /\ parse_version(local_version_str) # <<>>
    /\ parse_version(server_version_str) # <<>>
    /\ VersionLess(parse_version(local_version_str),
                   parse_version(server_version_str))

\* C15: with the local version below the server's and an empty chain the
\* program reports the resolution failure, not "up to date"; nothing has
\* been fetched or applied and the marker is as it was read.  "Up to date"
\* is reported only with the local version not below the server's.
C15_EmptyChainIsFailure ==
    /\ report = "error_chain" =>
          /\ LocalBelowServer
          /\ update_chain = <<>>
          /\ pc \in {"ask_retry_check", "exit"}
          /\ events = <<>> /\ zips = {} /\ ~temp.exists
          /\ Strip(marker) = local_version_str
    /\ report = "uptodate" =>
          /\ pc = "exit"
          /\ parse_version(local_version_str) # <<>>
          /\ parse_version(server_version_str) # <<>>
          /\ ~LocalBelowServer
          /\ events = <<>>
    /\ (LocalBelowServer /\ update_chain = <<>>) => report # "uptodate"
    /\ events # <<>> => (LocalBelowServer /\ update_chain # <<>>)

\* local 1.0, server 1.2, and no published version between them
C15_Witness ==
    /\ report = "error_chain"
    /\ pc = "ask_retry_check"
    /\ local_version_str = V10
    /\ server_version_str = V12
    /\ update_chain = <<>>
    /\ marker = V10nl

\* the kinds of warning the program raises, all of them about a file
\* operation
FileWarnings == {"stale", "delete", "copy", "restore", "temp", "pkgclean"}

\* C16: when the attempt ends with every element committed, the marker is
\* the last element of the chain and success is reported; when the server's
\* latest version is not in the chain (the list did not publish it), the
\* marker is below that version and no warning says so.
C16_ShortChainIsSuccess ==
    pc = "summary" =>
        LET last == update_chain[Len(update_chain)]
        IN  /\ report = "success"
            /\ marker = last
            /\ parse_version(last) # parse_version(server_version_str) =>
                  /\ VersionLess(parse_version(marker),
                                 parse_version(server_version_str))
                  /\ \A j \in 1..Len(UPDATE_WARNINGS) :
                        UPDATE_WARNINGS[j][1] \in FileWarnings

\* the server announces 1.2 and publishes only 1.1: the run ends in the
\* summary at 1.1 with an empty warning log
C16_Witness ==
    /\ pc = "summary"
    /\ report = "success"
    /\ local_version_str = V10
    /\ server_version_str = V12
    /\ update_chain = <<V11>>
    /\ marker = V11
    /\ UPDATE_WARNINGS = <<>>

\* the statements of apply_update between extractall and the marker write
AfterExtract == {"cleanse", "cleanse_loop", "walk_root", "walk_files", "commit"}

\* C17: when extraction begins TEMP_UPDATE exists and is empty, whatever an
\* earlier call left behind; after extraction it holds files of this call's
\* package only, and every file this call has copied carries this version's
\* content; a left-over TEMP_UPDATE that cannot be removed ends the call in
\* the except clause with nothing extracted, nothing removed and nothing
\* copied, and the call returns False.
C17_FreshTemp ==
    /\ pc = "extract" => temp = EmptyTemp(target_version)
    /\ pc \in AfterExtract =>
          /\ temp.exists
          /\ temp.ver = target_version
          /\ temp.files \subseteq pkg.files
    /\ pc \notin {"apply"} =>
          \A f \in h.copied : tree.files[f] = target_version
    /\ h.hard = "stage_rmtree" =>
          /\ pc \in {"failed", "finally", "returned", "apply"}
          /\ h.copied = {}
          /\ h.removed = {}
          /\ tree = h.overlaid
          /\ pc = "returned" => ~result

\* the second call starts extraction although the first call's finally
\* clause failed to remove TEMP_UPDATE, which held files of the package
C17_Witness ==
    /\ pc = "extract"
    /\ twice.n = 2
    /\ HasWarning("temp")
    /\ pkg.files # {}
    /\ temp.files = {}

\* a version text parse_version gives the empty list for
Invalid(version_str) == parse_version(version_str) = <<>>

\* a pass of the check loop has ended with a local or a server version that
\* did not parse
CheckedInvalid ==
    /\ report # "none"
    /\ Invalid(local_version_str) \/ Invalid(server_version_str)

\* the reports of the passes that end in ask_retry_or_exit with no chain
CheckErrors == {"error_local", "error_server", "error_list", "error_info"}

\* C18 as stated: a local or server version that does not parse always leads
\* to the error and retry prompt, with no fetch and no apply.
C18_InvalidAlwaysError ==
    CheckedInvalid =>
        /\ report \in CheckErrors
        /\ update_chain = <<>>
        /\ events = <<>>
        /\ zips = {}

\* C18, amended: no element of a chain is a version that does not parse; a
\* pass with a local or server version that does not parse never decides
\* "update", "up to date" or "no update path" and nothing is fetched or
\* applied: it ends at the error and retry prompt, or has ended before the
\* versions are compared, with the exit for a local version below the
\* minimum or with the user's refusal to go on without a minimum version; and
\* "below the minimum" is never decided for a local version that does not
\* parse.
C18_InvalidNeverCompared ==
    /\ \A i \in 1..Len(update_chain) : ~Invalid(update_chain[i])
    /\ CheckedInvalid =>
          /\ report \in CheckErrors \cup {"too_low", "declined"}
          /\ report \in CheckErrors => pc \in {"ask_retry_check", "exit"}
          /\ report \in {"too_low", "declined"} => pc = "exit"
          /\ update_chain = <<>>
          /\ events = <<>>
          /\ zips = {}
    /\ report = "too_low" => ~Invalid(local_version_str)

\* the marker parses, the server's answer does not: the retry prompt
C18_Witness ==
    /\ pc = "ask_retry_check"
    /\ report = "error_info"
    /\ ~Invalid(local_version_str)
    /\ server_version_str = Vbad

\* the version the marker holds, as get_local_version and parse_version
\* read it
MarkerVersion(m) == parse_version(get_local_version(m))

\* C19: over a whole execution, retries of the update attempt included,
\* every apply_update call is for a version strictly greater than the one
\* the marker holds when the call starts, and a call that commits leaves the
\* marker at a version not below the one it found.
C19_NeverReapplied ==
    /\ pc = "apply" =>
          ListLess(MarkerVersion(marker), parse_version(target_version))
    /\ (pc = "returned" /\ result) =>
          ListLessEq(MarkerVersion(h.before), MarkerVersion(marker))

\* the chain 1.1, 1.2, 1.3 was walked up to 1.2, the walk failed at 1.3, the
\* user asked for another attempt, and apply_update is called for 1.1 again
C19_Witness ==
    /\ pc = "apply"
    /\ report = "failed"
    /\ update_chain = <<V11, V12, V13>>
    /\ idx = 1
    /\ target_version = V11
    /\ marker = V12

\* C20: every failure inside download_update after the request is issued
\* comes back to main as a failed fetch: main stops the chain and reports the
\* failure, and the program is never ended by an exception of the fetch.
C20_FetchFailuresReturned ==
    /\ pc # "crashed"
    /\ (events # <<>> /\ LastEvent.op = "fetch" /\ LastEvent.res # "ok") =>
          /\ LastEvent.res = "fail"
          /\ report = "failed"
          /\ pc \in {"ask_retry_update", "confirm", "exit"}

\* a content-length header that is no number ends the program inside
\* download_update: no retry prompt, no report
C20_Witness ==
    /\ pc = "crashed"
    /\ fetch.ret = "crash"
    /\ fetch.why = "header"
    /\ LastEvent.op = "fetch"

=============================================================================
